---- MODULE Spec2Model ----
(***************************************************************************)
(* Android low memory killer (drivers/staging/android/lowmemorykiller.c,   *)
(* built with CONFIG_ANDROID_LOW_MEMORY_KILLER_DO_NOT_KILL_PROCESS).       *)
(*                                                                         *)
(* The shrinker callback lowmem_shrink is modelled as three steps          *)
(* (entry, one step per process of for_each_process, the kill loop) so     *)
(* that the task_free notifier, the clock and exiting tasks interleave     *)
(* with a pass the way they do on another CPU.                             *)
(***************************************************************************)
EXTENDS Integers, Sequences, FiniteSets, TLC

VARIABLES
    jiffies,                      \* the tick counter
    lowmem_deathpending,          \* line 58: a task, or NULL
    lowmem_deathpending_timeout,  \* line 59
    lowmem_adj,                   \* line 43: [0..5 -> Int]
    lowmem_adj_size,              \* line 49
    lowmem_minfree,               \* line 50: [0..5 -> size_t]
    lowmem_minfree_size,          \* line 56
    donotkill_proc,               \* line 83: [enabled, names, names_count]
    donotkill_sysproc,            \* line 84
    proc,                         \* the task list, in for_each_process order:
                                  \* [1..n -> [mm, sig, oom_adj, rss, comm]]
    tstate,                       \* per task: "listed", "released" or "freed"
    sigkill,                      \* tasks with SIGKILL sent
    memdie,                       \* tasks with TIF_MEMDIE set
    tasklist_lock,                \* readers holding tasklist_lock
    task_locks,                   \* tasks whose task_lock lowmem_shrink holds
    pc,                           \* position of lowmem_shrink: "idle" or "scan"
    cur,                          \* for_each_process cursor p
    nr_to_scan,                   \* sc->nr_to_scan of the pass
    other_free, other_file,       \* lines 167-169
    min_adj,                      \* line 162
    rem,                          \* line 159
    selected,                     \* line 158: [0..2 -> task or NULL]
    selected_tasksize,            \* line 164
    selected_oom_score_adj,       \* line 165
    ret,                          \* value returned by the last finished pass
    outcome,                      \* which return the last finished pass took
    sent,                         \* tasks signalled by the current/last pass
    entry,                        \* what the current/last pass saw on entry
    issued                        \* the last termination issued: its target and
                                  \* whether the target's exit has been notified

vars == << jiffies, lowmem_deathpending, lowmem_deathpending_timeout,
           lowmem_adj, lowmem_adj_size, lowmem_minfree, lowmem_minfree_size,
           donotkill_proc, donotkill_sysproc, proc, tstate, sigkill, memdie,
           tasklist_lock, task_locks, pc, cur, nr_to_scan, other_free,
           other_file, min_adj, rem, selected, selected_tasksize,
           selected_oom_score_adj, ret, outcome, sent, entry, issued >>

config_vars == << lowmem_adj, lowmem_adj_size, lowmem_minfree,
                  lowmem_minfree_size, donotkill_proc, donotkill_sysproc >>

pass_vars == << pc, cur, nr_to_scan, other_free, other_file, min_adj, rem,
                selected, selected_tasksize, selected_oom_score_adj,
                ret, outcome, sent, entry, tasklist_lock, task_locks >>

----------------------------------------------------------------------------
(* Bounds of the model *)

\* tasks on the task list of the scheduler specification
NTasks == 2
\* tasks on the task list of the scan specification
NScanTasks == 3
\* the clock stops at this tick
MaxJiffies == 3
\* longest task comm of the classifier specification
MaxCommLen == 2
\* most names configured in one do-not-kill list of the classifier specification
MaxNames == 1
\* width in bits of int and size_t (32 in the build; scaled so that TLC's
\* integers hold 2^WordBits)
WordBits == 16

(* Program constants *)

NULL == 0
\* linux/oom.h, used at line 162
OOM_ADJUST_MAX == 15
\* ticks per second, used at line 277 (scaled)
HZ == 2
\* line 63
MANAGED_PROCESS_TYPES == 3
\* lines 68-72
KILLABLE_PROCESS == 0
DO_NOT_KILL_PROCESS == 1
DO_NOT_KILL_SYSTEM_PROCESS == 2
\* ARRAY_SIZE(lowmem_adj), line 43
LOWMEM_ARRAY_SIZE == 6

ProcTypes == 0 .. (MANAGED_PROCESS_TYPES - 1)

----------------------------------------------------------------------------
(* C arithmetic *)

RECURSIVE Pow2(_)
Pow2(n) == IF n = 0 THEN 1 ELSE 2 * Pow2(n - 1)

\* conversion of an int to size_t (the usual arithmetic conversions)
ToSizeT(x) == x % Pow2(WordBits)

\* lines 187-188 compared as signed integers
IntLessSizeT_signed(a, b) == a < b

\* int < size_t: the int operand is converted to size_t (lines 187-188)
IntLessSizeT(a, b) == ToSizeT(a) < b

\* time_before_eq(a, b), line 179
time_before_eq(a, b) == a <= b

----------------------------------------------------------------------------
(* Strings are sequences of characters *)

\* strstr(haystack, needle): 1-based position of the first occurrence of
\* needle in haystack, NULL (0) when there is none
strstr(haystack, needle) ==
    LET hits == { i \in 1 .. (Len(haystack) - Len(needle) + 1) :
                    SubSeq(haystack, i, i + Len(needle) - 1) = needle }
    IN  IF hits = {} THEN NULL
        ELSE CHOOSE i \in hits : \A j \in hits : i <= j

\* line 97 with the arguments of strstr exchanged
is_in_donotkill_list_swapped(proc_name, dnk) ==
    /\ dnk.enabled # 0
    /\ dnk.names_count > 0
    /\ \E i \in 1 .. dnk.names_count : strstr(proc_name, dnk.names[i]) # NULL

\* lines 89-103
is_in_donotkill_list(proc_name, dnk) ==
    /\ dnk.enabled # 0
    /\ dnk.names_count > 0
    /\ \E i \in 1 .. dnk.names_count : strstr(dnk.names[i], proc_name) # NULL

\* lines 108-111
is_in_donotkill_proc_list(proc_name) ==
    is_in_donotkill_list(proc_name, donotkill_proc)

\* lines 116-119
is_in_donotkill_sysproc_list(proc_name) ==
    is_in_donotkill_list(proc_name, donotkill_sysproc)

\* lines 234-248: the managed process type of a task name
proc_type_of(comm) ==
    IF is_in_donotkill_proc_list(comm) THEN DO_NOT_KILL_PROCESS
    ELSE IF is_in_donotkill_sysproc_list(comm) THEN DO_NOT_KILL_SYSTEM_PROCESS
    ELSE KILLABLE_PROCESS

----------------------------------------------------------------------------
(* lowmem_shrink, the pure parts *)

\* the test of line 178 without the timeout of line 179
death_outstanding_no_timeout(dp, now, timeout) ==
    dp # NULL

\* lines 178-179: a death is outstanding
death_outstanding(dp, now, timeout) ==
    dp # NULL /\ time_before_eq(now, timeout)

\* lines 166, 182-183 without the test of lowmem_minfree_size of lines 184-185
array_size_of_adj_only(adj_size, minfree_size) ==
    LET a0 == LOWMEM_ARRAY_SIZE
    IN  IF adj_size < a0 THEN adj_size ELSE a0

\* lines 166, 182-185
array_size_of(adj_size, minfree_size) ==
    LET a0 == LOWMEM_ARRAY_SIZE
        a1 == IF adj_size < a0 THEN adj_size ELSE a0
    IN  IF minfree_size < a1 THEN minfree_size ELSE a1

\* lines 187-188: entry i of the table matches the snapshot
threshold_hit(minfree, i, free, file) ==
    IntLessSizeT(free, minfree[i]) /\ IntLessSizeT(file, minfree[i])

\* lines 162, 186-192
resolve_min_adj(adj, adj_size, minfree, minfree_size, free, file) ==
    LET n    == array_size_of(adj_size, minfree_size)
        hits == { i \in 0 .. (n - 1) : threshold_hit(minfree, i, free, file) }
    IN  IF hits = {} THEN OOM_ADJUST_MAX + 1
        ELSE adj[CHOOSE i \in hits : \A j \in hits : i <= j]

\* lines 197-200
reclaimable(snap) ==
    snap.active_anon + snap.active_file + snap.inactive_anon + snap.inactive_file

\* lines 217-230: the way an examined task leaves the section under
\* task_lock(p): no mm or signal struct (line 220), oom_adj below min_adj
\* (line 225), or past the reading of its resident size (line 229)
scan_path(p, madj) ==
    IF ~(p.mm /\ p.sig) THEN "nocontext"
    ELSE IF p.oom_adj < madj THEN "lowadj"
    ELSE "sized"

\* lines 221, 230 without the task_unlock of line 226
task_unlocked_not_lowadj(path) == path \in {"nocontext", "sized"}

\* lines 221, 226, 230: task_unlock(p) is called on the path
task_unlocked(path) == path \in {"nocontext", "lowadj", "sized"}

\* lines 220-232 without the test of oom_adj of line 225
eligible_any_adj(p, madj) ==
    /\ p.mm /\ p.sig
    /\ ~(p.rss <= 0)

\* lines 220-232: the task passes the checks made under task_lock
eligible(p, madj) ==
    /\ p.mm /\ p.sig
    /\ ~(p.oom_adj < madj)
    /\ ~(p.rss <= 0)

\* line 254 with < for <=
replaces_equal_size(sel, sel_adj, sel_size, oom_adj, tasksize) ==
    ~ ( sel # NULL
        /\ ( oom_adj < sel_adj
             \/ (oom_adj = sel_adj /\ tasksize < sel_size) ) )

\* lines 250-256: the task replaces the selected one of its type
replaces(sel, sel_adj, sel_size, oom_adj, tasksize) ==
    ~ ( sel # NULL
        /\ ( oom_adj < sel_adj
             \/ (oom_adj = sel_adj /\ tasksize <= sel_size) ) )

\* the loop of line 272 run from the last managed process type down
last_selected(sel) ==
    LET found == { t \in ProcTypes : sel[t] # NULL }
    IN  IF found = {} THEN MANAGED_PROCESS_TYPES
        ELSE CHOOSE t \in found : \A u \in found : t >= u

\* lines 272-273: the first managed process type with a selected task,
\* MANAGED_PROCESS_TYPES when there is none
first_selected(sel) ==
    LET found == { t \in ProcTypes : sel[t] # NULL }
    IN  IF found = {} THEN MANAGED_PROCESS_TYPES
        ELSE CHOOSE t \in found : \A u \in found : t <= u

\* the loop of lines 272-283 without the break of line 281: every managed
\* process type with a selected task
kill_types_no_break(sel) ==
    LET one(t) == IF sel[t] # NULL THEN << t >> ELSE << >>
    IN  one(KILLABLE_PROCESS) \o one(DO_NOT_KILL_PROCESS)
            \o one(DO_NOT_KILL_SYSTEM_PROCESS)

\* lines 272-283: the managed process types whose selected task the loop
\* signals, in the order of the loop, which breaks after the first
kill_types(sel) ==
    LET ty == first_selected(sel)
    IN  IF ty < MANAGED_PROCESS_TYPES THEN << ty >> ELSE << >>

\* line 150 without the comparison of line 149
task_notify_func_any(dp, task) == NULL

\* lines 149-150 storing the exiting task when it is not the one named
task_notify_func_stores(dp, task) ==
    IF task = dp THEN NULL ELSE task

\* line 149 with the comparison inverted
task_notify_func_inverted(dp, task) ==
    IF task # dp THEN NULL ELSE dp

\* lines 144-153: the new value of lowmem_deathpending
task_notify_func(dp, task) ==
    IF task = dp THEN NULL ELSE dp

\* report_only without the test of min_adj of line 201
report_only_no_madj(nr, madj) == nr <= 0

\* line 201 without the test of sc->nr_to_scan
report_only_no_nr(nr, madj) ==
    madj = OOM_ADJUST_MAX + 1

\* line 201: the pass only reports
report_only(nr, madj) ==
    nr <= 0 \/ madj = OOM_ADJUST_MAX + 1

\* line 277
deathpending_timeout_at(now) == now + HZ

\* line 280 left out
rem_after_kill_kept(r, tasksize) == r

\* line 280
rem_after_kill(r, tasksize) == r - tasksize

RECURSIVE rem_after_kills(_, _, _)
\* line 280 over the iterations of the kill loop that signal a task
rem_after_kills(r, tys, sizes) ==
    IF tys = << >> THEN r
    ELSE rem_after_kills(rem_after_kill(r, sizes[Head(tys)]), Tail(tys), sizes)

----------------------------------------------------------------------------
(* State *)

AllNull == [t \in ProcTypes |-> NULL]
AllZero == [t \in ProcTypes |-> 0]

Tasks == DOMAIN proc

NoIssued == [target |-> NULL, notified |-> FALSE]

NoPages == [free |-> 0, file |-> 0, shmem |-> 0, active_anon |-> 0,
            active_file |-> 0, inactive_anon |-> 0, inactive_file |-> 0]

\* what a pass found on entry: lowmem_deathpending, whether jiffies was at
\* or before lowmem_deathpending_timeout, the last termination issued, and
\* the page counters it read
NoEntry == [dp |-> NULL, intime |-> TRUE, issued |-> NoIssued, pages |-> NoPages]

\* the static initialisers of lines 43-56
DefaultAdj == [i \in 0 .. 5 |-> CASE i = 0 -> 0 [] i = 1 -> 1 [] i = 2 -> 6
                                  [] i = 3 -> 12 [] OTHER -> 0]
DefaultMinfree == [i \in 0 .. 5 |-> CASE i = 0 -> 3 * 512 [] i = 1 -> 2 * 1024
                                      [] i = 2 -> 4 * 1024 [] i = 3 -> 16 * 1024
                                      [] OTHER -> 0]

\* a do-not-kill list (lines 77-81)
DoNotKill(en, names) == [enabled |-> en, names |-> names, names_count |-> Len(names)]

\* the state after module load and before the first pass, but for the
\* configuration and the task list
InitKernel ==
    /\ jiffies = 0
    /\ lowmem_deathpending = NULL
    /\ lowmem_deathpending_timeout = 0
    /\ tstate = [t \in DOMAIN proc |-> "listed"]
    /\ sigkill = {}
    /\ memdie = {}
    /\ tasklist_lock = 0
    /\ task_locks = {}
    /\ pc = "idle"
    /\ cur = 0
    /\ nr_to_scan = 0
    /\ other_free = 0
    /\ other_file = 0
    /\ min_adj = OOM_ADJUST_MAX + 1
    /\ rem = 0
    /\ selected = AllNull
    /\ selected_tasksize = AllZero
    /\ selected_oom_score_adj = AllZero
    /\ ret = 0
    /\ outcome = "none"
    /\ sent = << >>
    /\ entry = NoEntry
    /\ issued = NoIssued

----------------------------------------------------------------------------
(* lowmem_shrink *)

\* lines 155-211: from the call to the first process of the scan, or to one
\* of the early returns
lowmem_shrink_enter(nr, snap) ==
    LET free == snap.free
        file == snap.file - snap.shmem
        madj == resolve_min_adj(lowmem_adj, lowmem_adj_size, lowmem_minfree,
                                lowmem_minfree_size, free, file)
        est  == reclaimable(snap)
    IN
    /\ pc = "idle"
    /\ nr_to_scan' = nr
    /\ other_free' = free
    /\ other_file' = file
    /\ selected' = AllNull
    /\ selected_tasksize' = AllZero
    /\ sent' = << >>
    /\ entry' = [dp |-> lowmem_deathpending,
                 intime |-> (jiffies <= lowmem_deathpending_timeout),
                 issued |-> issued, pages |-> snap]
    /\ IF death_outstanding(lowmem_deathpending, jiffies,
                            lowmem_deathpending_timeout)
       THEN /\ min_adj' = OOM_ADJUST_MAX + 1
            /\ rem' = 0
            /\ selected_oom_score_adj' = AllZero
            /\ ret' = 0
            /\ outcome' = "deathpending"
            /\ cur' = 0
            /\ UNCHANGED << pc, tasklist_lock >>
       ELSE /\ min_adj' = madj
            /\ rem' = est
            /\ IF report_only(nr, madj)
               THEN /\ selected_oom_score_adj' = AllZero
                    /\ ret' = est
                    /\ outcome' = "report"
                    /\ cur' = 0
                    /\ UNCHANGED << pc, tasklist_lock >>
               ELSE /\ selected_oom_score_adj' = [t \in ProcTypes |-> madj]
                    /\ tasklist_lock' = tasklist_lock + 1
                    /\ pc' = "scan"
                    /\ cur' = 1
                    /\ outcome' = "scanning"
                    /\ UNCHANGED ret
    /\ UNCHANGED << jiffies, lowmem_deathpending, lowmem_deathpending_timeout,
                    config_vars, proc, tstate, sigkill, memdie, issued,
                    task_locks >>

\* lines 212-263: one iteration of for_each_process
lowmem_shrink_scan ==
    /\ pc = "scan"
    /\ cur \in Tasks
    /\ cur' = cur + 1
    /\ LET p  == proc[cur]
           ty == proc_type_of(p.comm)
       IN  IF /\ tstate[cur] = "listed"
              /\ eligible(p, min_adj)
              /\ replaces(selected[ty], selected_oom_score_adj[ty],
                          selected_tasksize[ty], p.oom_adj, p.rss)
           THEN /\ selected' = [selected EXCEPT ![ty] = cur]
                /\ selected_tasksize' = [selected_tasksize EXCEPT ![ty] = p.rss]
                /\ selected_oom_score_adj' =
                       [selected_oom_score_adj EXCEPT ![ty] = p.oom_adj]
           ELSE UNCHANGED << selected, selected_tasksize, selected_oom_score_adj >>
    /\ task_locks' =
          IF tstate[cur] = "listed"
                /\ ~task_unlocked(scan_path(proc[cur], min_adj))
          THEN task_locks \cup {cur}
          ELSE task_locks
    /\ UNCHANGED << jiffies, lowmem_deathpending, lowmem_deathpending_timeout,
                    config_vars, proc, tstate, sigkill, memdie, issued,
                    tasklist_lock, pc, nr_to_scan, other_free, other_file,
                    min_adj, rem, ret, outcome, sent, entry >>

\* lines 272-291: the kill loop and the return
lowmem_shrink_kill ==
    LET tys     == kill_types(selected)
        victims == [i \in 1 .. Len(tys) |-> selected[tys[i]]]
    IN
    /\ pc = "scan"
    /\ cur \notin Tasks
    /\ IF tys # << >>
       THEN /\ lowmem_deathpending_timeout' = deathpending_timeout_at(jiffies)
            /\ sigkill' = sigkill \cup { victims[i] : i \in 1 .. Len(tys) }
            /\ memdie' = memdie \cup { victims[i] : i \in 1 .. Len(tys) }
            /\ sent' = sent \o victims
            /\ rem' = rem_after_kills(rem, tys, selected_tasksize)
            /\ outcome' = "kill"
            /\ issued' = [target |-> victims[Len(tys)], notified |-> FALSE]
       ELSE /\ outcome' = "nokill"
            /\ UNCHANGED << lowmem_deathpending_timeout, sigkill, memdie,
                            sent, rem, issued >>
    /\ ret' = rem'
    /\ tasklist_lock' = tasklist_lock - 1
    /\ pc' = "idle"
    /\ UNCHANGED << jiffies, lowmem_deathpending, config_vars, proc, tstate,
                    cur, nr_to_scan, other_free, other_file, min_adj,
                    selected, selected_tasksize, selected_oom_score_adj, entry,
                    task_locks >>

----------------------------------------------------------------------------
(* The rest of the kernel, as the driver sees it *)

\* jiffies advances
tick ==
    /\ jiffies < MaxJiffies
    /\ jiffies' = jiffies + 1
    /\ UNCHANGED << lowmem_deathpending, lowmem_deathpending_timeout,
                    config_vars, proc, tstate, sigkill, memdie, pass_vars,
                    issued >>

\* a task gives up its address space (p->mm read as NULL at line 218)
task_exit(t) ==
    /\ tstate[t] = "listed"
    /\ proc[t].mm
    /\ proc' = [proc EXCEPT ![t].mm = FALSE]
    /\ UNCHANGED << jiffies, lowmem_deathpending, lowmem_deathpending_timeout,
                    config_vars, tstate, sigkill, memdie, pass_vars, issued >>

\* an exited task leaves the task list, which takes tasklist_lock for
\* writing (the lock read-held from line 211 to line 289)
task_release(t) ==
    /\ tstate[t] = "listed"
    /\ ~proc[t].mm
    /\ tasklist_lock = 0
    /\ tstate' = [tstate EXCEPT ![t] = "released"]
    /\ UNCHANGED << jiffies, lowmem_deathpending, lowmem_deathpending_timeout,
                    config_vars, proc, sigkill, memdie, pass_vars, issued >>

\* the task_free notifier chain calls task_notify_func (lines 140-153, 300)
task_free(t) ==
    /\ tstate[t] = "released"
    /\ tstate' = [tstate EXCEPT ![t] = "freed"]
    /\ lowmem_deathpending' = task_notify_func(lowmem_deathpending, t)
    /\ issued' = IF issued.target = t THEN [issued EXCEPT !.notified = TRUE]
                 ELSE issued
    /\ sigkill' = sigkill \ {t}
    /\ memdie' = memdie \ {t}
    /\ UNCHANGED << jiffies, lowmem_deathpending_timeout, config_vars, proc,
                    pass_vars >>

----------------------------------------------------------------------------
(* The scheduler specification: passes, the clock, exits and notifications *)

\* global_page_state snapshots: pressure below minfree[0], pressure below
\* minfree[2] only, no pressure, and NR_SHMEM read above NR_FILE_PAGES
PageStates ==
    { [free |-> f, file |-> 500, shmem |-> s, active_anon |-> 30,
       active_file |-> 20, inactive_anon |-> 10, inactive_file |-> s \div 100] :
      f \in {1000, 20000}, s \in {0, 600} } \ { [free |-> 20000, file |-> 500,
       shmem |-> 600, active_anon |-> 30, active_file |-> 20,
       inactive_anon |-> 10, inactive_file |-> 6] }

NrToScan == {0, 128}

\* the task lists of the scheduler specification: resident sizes rising
\* or falling along the list
SchedProcs ==
    { [t \in 1 .. NTasks |->
         [mm |-> TRUE, sig |-> TRUE, oom_adj |-> 12,
          rss |-> IF up THEN 2 * t + 1 ELSE 2 * (NTasks - t) + 3,
          comm |-> << "a" >>]] : up \in BOOLEAN }

Init ==
    /\ lowmem_adj = DefaultAdj
    /\ lowmem_adj_size = 4
    /\ lowmem_minfree = DefaultMinfree
    /\ lowmem_minfree_size = 4
    /\ donotkill_proc = DoNotKill(0, << >>)
    /\ donotkill_sysproc = DoNotKill(0, << >>)
    /\ proc \in SchedProcs
    /\ InitKernel

Next ==
    \/ \E nr \in NrToScan, snap \in PageStates : lowmem_shrink_enter(nr, snap)
    \/ lowmem_shrink_scan
    \/ lowmem_shrink_kill
    \/ tick
    \/ \E t \in Tasks : task_exit(t)
    \/ \E t \in Tasks : task_release(t)
    \/ \E t \in Tasks : task_free(t)

Spec == Init /\ [][Next]_vars

----------------------------------------------------------------------------
(* Properties of the scheduler specification *)

\* a termination has been issued and the exit of its target not yet notified
KillOutstanding(i) == i.target # NULL /\ ~i.notified

\* the estimate of lines 197-200 over the counters a pass read
Estimate(pages) ==
    pages.active_anon + pages.active_file + pages.inactive_anon
        + pages.inactive_file

\* the step is the entry of a pass
EnterStep == pc = "idle" /\ UNCHANGED << jiffies, proc, tstate >>

\* the step is the kill loop of a pass and it signals a task
KillStep == pc = "scan" /\ pc' = "idle" /\ sent' # << >>

\* C1: single outstanding kill: a pass entered while a termination is
\* outstanding (its target's exit not notified) and jiffies is at or before
\* the expiry selects no victim and issues no termination.
C1_SingleOutstandingKill ==
    (KillOutstanding(entry.issued) /\ entry.intime)
        => (sent = << >> /\ selected = AllNull)

\* C2: the pass that signals a victim leaves lowmem_deathpending naming the
\* victim and lowmem_deathpending_timeout at jiffies + HZ.
C2_KillCreatesPendingKill ==
    [][ KillStep => ( /\ lowmem_deathpending' = sent'[Len(sent')]
                      /\ lowmem_deathpending' # NULL
                      /\ lowmem_deathpending_timeout' = jiffies + HZ ) ]_vars

\* C3: timeout self-healing: a pass entered after the expiry of an
\* outstanding termination whose exit was never notified does not take the
\* death-pending return: it resolves the threshold afresh and, under
\* pressure with nr_to_scan > 0, scans; and once jiffies is past the
\* timeout the test of lines 178-179 fails whatever lowmem_deathpending
\* names.
C3_TimeoutSelfHealing ==
    /\ (KillOutstanding(entry.issued) /\ ~entry.intime) =>
          /\ outcome # "deathpending"
          /\ min_adj = resolve_min_adj(lowmem_adj, lowmem_adj_size,
                                       lowmem_minfree, lowmem_minfree_size,
                                       other_free, other_file)
          /\ (nr_to_scan > 0 /\ min_adj <= OOM_ADJUST_MAX)
                => outcome \in {"scanning", "kill", "nokill"}
    /\ (jiffies > lowmem_deathpending_timeout) =>
          \A d \in Tasks \cup {NULL} :
              ~death_outstanding(d, jiffies, lowmem_deathpending_timeout)

\* a second termination issued by a pass entered after the expiry of the
\* first, whose exit was never notified
C3_Witness ==
    /\ pc = "idle" /\ outcome = "kill"
    /\ KillOutstanding(entry.issued) /\ ~entry.intime

\* C4: the exit notification of the target of the outstanding termination
\* leaves lowmem_deathpending NULL (task_notify_func clears a pointer that
\* names the task), and a pass entered after it takes the full evaluation
\* even at or before the expiry.
C4_ExitNotificationClears ==
    /\ \A d \in Tasks : task_notify_func(d, d) = NULL
    /\ \A t \in Tasks : tstate[t] = "freed" => lowmem_deathpending # t
    /\ (issued.notified => lowmem_deathpending = NULL)
    /\ (entry.issued.notified /\ entry.intime) =>
          /\ outcome # "deathpending"
          /\ (nr_to_scan > 0 /\ min_adj <= OOM_ADJUST_MAX)
                => outcome \in {"scanning", "kill", "nokill"}

\* a pass entered at or before the expiry, after the exit notification of the
\* last victim, that went on to signal another task
C4_Witness ==
    /\ pc = "idle" /\ outcome = "kill"
    /\ entry.issued.notified /\ entry.intime

C10_ReportedValue ==
    (pc = "idle" /\ outcome \in {"report", "kill", "nokill"}) =>
        /\ (outcome = "kill") = (sent # << >>)
        /\ ret = Estimate(entry.pages)
                   - (IF sent # << >> THEN proc[sent[1]].rss ELSE 0)

\* a pass that signalled a task of positive size
C10_Witness ==
    /\ pc = "idle" /\ outcome = "kill" /\ sent # << >>
    /\ proc[sent[1]].rss > 0
    /\ ret = Estimate(entry.pages) - proc[sent[1]].rss

\* C11: a pass entered while a termination is outstanding and jiffies is at
\* or before the expiry takes the return of lines 178-180: it resolves no
\* threshold, examines no task and returns 0.
C11_CooldownReturnsZero ==
    (KillOutstanding(entry.issued) /\ entry.intime /\ outcome # "none")
        => ( /\ pc = "idle"
             /\ outcome = "deathpending"
             /\ ret = 0
             /\ min_adj = OOM_ADJUST_MAX + 1
             /\ cur = 0 )

\* C12: a pass entered while a termination is outstanding and jiffies is at
\* or before the expiry selects nothing and returns the reclaimable
\* estimate.
C12_CooldownReportsEstimate ==
    (KillOutstanding(entry.issued) /\ entry.intime /\ pc = "idle"
       /\ outcome # "none")
        => ( /\ selected = AllNull
             /\ sent = << >>
             /\ ret = Estimate(entry.pages) )

\* C13: healthy state: a pass whose threshold resolution leaves min_adj at
\* OOM_ADJUST_MAX + 1 returns from its entry step: it takes no tasklist
\* lock and examines no task, selects and signals nothing, leaves
\* lowmem_deathpending and lowmem_deathpending_timeout unchanged, and
\* returns the reclaimable estimate.
C13_HealthyState ==
    [][ (EnterStep /\ outcome' # "deathpending"
           /\ min_adj' = OOM_ADJUST_MAX + 1) =>
          ( /\ pc' = "idle"
            /\ outcome' = "report"
            /\ cur' = 0
            /\ tasklist_lock' = tasklist_lock
            /\ selected' = AllNull
            /\ sent' = << >>
            /\ ret' = Estimate(entry'.pages)
            /\ UNCHANGED << lowmem_deathpending, lowmem_deathpending_timeout,
                            sigkill, memdie, issued >> ) ]_vars

\* a pass with nr_to_scan > 0 made with plenty of free pages while listed
\* tasks of positive size exist
C13_Witness ==
    /\ pc = "idle" /\ outcome = "report" /\ nr_to_scan > 0
    /\ min_adj = OOM_ADJUST_MAX + 1
    /\ other_file >= 0 /\ other_free >= lowmem_minfree[lowmem_minfree_size - 1]
    /\ \E t \in Tasks : tstate[t] = "listed" /\ proc[t].mm /\ proc[t].rss > 0
    /\ ret = Estimate(entry.pages)

NotifyStep(t) == tstate[t] # "freed" /\ tstate'[t] = "freed"

\* C19: the exit notification of a task other than the one
\* lowmem_deathpending names, or delivered when it names none, leaves
\* lowmem_deathpending unchanged, and no exit notification changes
\* lowmem_deathpending_timeout; the termination outstanding for another
\* task stays outstanding.
C19_OtherExitLeavesPendingKill ==
    /\ \A d \in Tasks \cup {NULL} : \A t \in Tasks :
          t # d => task_notify_func(d, t) = d
    /\ [][ \A t \in Tasks :
             NotifyStep(t) =>
               /\ lowmem_deathpending_timeout' = lowmem_deathpending_timeout
               /\ (t # lowmem_deathpending)
                     => lowmem_deathpending' = lowmem_deathpending
               /\ (t # issued.target) => issued' = issued ]_vars

\* the exit notification of a task other than the signalled one was
\* delivered while the termination is outstanding and unexpired
C19_Witness ==
    /\ KillOutstanding(issued)
    /\ jiffies <= lowmem_deathpending_timeout
    /\ \E t \in Tasks : t # issued.target /\ tstate[t] = "freed"
    /\ tstate[issued.target] # "freed"

----------------------------------------------------------------------------
(* The scan specification: one pass over every task list of NScanTasks
   tasks, under a table entry that sets min_adj to 6, with one name
   configured in each do-not-kill list *)

\* NR_FREE_PAGES and the cache below lowmem_minfree[2] only
ScanPages == [free |-> 3000, file |-> 3000, shmem |-> 0, active_anon |-> 30,
              active_file |-> 20, inactive_anon |-> 10, inactive_file |-> 5]

\* comms: "k" is in no list, "u" occurs in the user name "ux", "s" in the
\* system name "sx"
ScanComms == { << "k" >>, << "u" >>, << "s" >> }

\* tasks the scan may select, and tasks it must skip: oom_adj below min_adj,
\* no mm, no signal struct, no resident pages
ScanProcs ==
    { [mm |-> TRUE, sig |-> TRUE, oom_adj |-> x[1], rss |-> x[2], comm |-> c] :
        x \in { << 6, 9 >>, << 12, 4 >>, << 12, 9 >> }, c \in ScanComms }
    \cup { [mm |-> TRUE,  sig |-> TRUE,  oom_adj |-> 0,  rss |-> 9, comm |-> << "k" >>],
           [mm |-> FALSE, sig |-> TRUE,  oom_adj |-> 12, rss |-> 9, comm |-> << "k" >>],
           [mm |-> TRUE,  sig |-> FALSE, oom_adj |-> 12, rss |-> 9, comm |-> << "k" >>],
           [mm |-> TRUE,  sig |-> TRUE,  oom_adj |-> 12, rss |-> 0, comm |-> << "k" >>] }

InitScan ==
    /\ lowmem_adj = DefaultAdj
    /\ lowmem_adj_size = 4
    /\ lowmem_minfree = DefaultMinfree
    /\ lowmem_minfree_size = 4
    /\ donotkill_proc = DoNotKill(1, << << "u", "x" >> >>)
    /\ donotkill_sysproc = DoNotKill(1, << << "s", "x" >> >>)
    /\ proc \in [1 .. NScanTasks -> ScanProcs]
    /\ InitKernel

NextScan ==
    \/ (outcome = "none" /\ \E nr \in NrToScan : lowmem_shrink_enter(nr, ScanPages))
    \/ lowmem_shrink_scan
    \/ lowmem_shrink_kill

SpecScan == InitScan /\ [][NextScan]_vars

\* the tasks before the cursor that pass the checks of lines 220-232 and
\* are of managed process type ty
Candidates(ty) ==
    { t \in Tasks : /\ t < cur
                    /\ tstate[t] = "listed"
                    /\ proc[t].mm /\ proc[t].sig
                    /\ proc[t].oom_adj >= min_adj
                    /\ proc[t].rss > 0
                    /\ proc_type_of(proc[t].comm) = ty }

\* t is at least as good a victim as u: greater oom_adj, or equal oom_adj
\* and at least the resident size
AsGood(t, u) ==
    \/ proc[t].oom_adj > proc[u].oom_adj
    \/ (proc[t].oom_adj = proc[u].oom_adj /\ proc[t].rss >= proc[u].rss)

\* the best candidate of a type: as good as every candidate, and the
\* earliest on the task list of those equally good
Best(ty) ==
    CHOOSE t \in Candidates(ty) :
        /\ \A u \in Candidates(ty) : AsGood(t, u)
        /\ \A u \in Candidates(ty) : (AsGood(u, t) /\ u # t) => t < u

ScanDone == pc = "scan" /\ cur \notin Tasks

PassDone == pc = "idle" /\ outcome \in {"kill", "nokill"}

\* C6: fallback order: the task signalled is the best candidate of the first
\* non-empty type in the order killable, user, system; none is signalled
\* when every type is empty.
C6_FallbackOrder ==
    PassDone =>
        LET nonempty == { ty \in ProcTypes : Candidates(ty) # {} } IN
        IF nonempty = {} THEN sent = << >>
        ELSE LET first == CHOOSE ty \in nonempty : \A u \in nonempty : ty <= u
             IN  /\ sent = << Best(first) >>
                 /\ (Candidates(KILLABLE_PROCESS) # {}
                        => proc_type_of(proc[sent[1]].comm) = KILLABLE_PROCESS)

\* a killable task signalled although a protected candidate had the greater
\* oom_adj and no smaller a size
C6_Witness ==
    /\ PassDone /\ sent # << >>
    /\ proc_type_of(proc[sent[1]].comm) = KILLABLE_PROCESS
    /\ \E u \in Candidates(DO_NOT_KILL_PROCESS) \cup Candidates(DO_NOT_KILL_SYSTEM_PROCESS) :
          /\ proc[u].oom_adj > proc[sent[1]].oom_adj
          /\ proc[u].rss >= proc[sent[1]].rss

\* C7: tie-break: at every point of the scan, the task selected for a type
\* is the best candidate among the tasks examined: greatest oom_adj, then
\* largest size, then earliest on the list; with its size and oom_adj.
C7_TieBreak ==
    (pc = "scan" \/ PassDone) =>
        \A ty \in ProcTypes :
            IF Candidates(ty) = {} THEN selected[ty] = NULL
            ELSE /\ selected[ty] = Best(ty)
                 /\ selected_tasksize[ty] = proc[Best(ty)].rss
                 /\ selected_oom_score_adj[ty] = proc[Best(ty)].oom_adj

\* a full scan of three killable candidates of equal oom_adj in which the
\* task selected follows a smaller one and precedes one of its own size
C7_Witness ==
    /\ ScanDone
    /\ \E t, u, w \in Candidates(KILLABLE_PROCESS) :
          /\ t < u /\ u < w /\ selected[KILLABLE_PROCESS] = u
          /\ proc[t].oom_adj = proc[u].oom_adj /\ proc[u].oom_adj = proc[w].oom_adj
          /\ proc[t].rss < proc[u].rss /\ proc[u].rss = proc[w].rss

\* the checks of lines 220-232 as the claim names them: a memory context
\* (mm and signal struct), an oom_adj of at least min_adj, resident pages
PassedChecks(t) ==
    /\ proc[t].mm /\ proc[t].sig
    /\ proc[t].oom_adj >= min_adj
    /\ proc[t].rss > 0

\* C15: victim eligibility: every task a pass selects as the best of its
\* type, and every task it signals, has a memory context, an oom_adj of at
\* least min_adj and a positive resident size; a task failing one of these
\* is skipped without effect: it is never selected, never signalled and
\* never marked.
C15_VictimEligibility ==
    /\ \A ty \in ProcTypes :
          selected[ty] # NULL =>
              /\ selected[ty] \in Tasks /\ selected[ty] < cur
              /\ PassedChecks(selected[ty])
              /\ selected_tasksize[ty] = proc[selected[ty]].rss
              /\ selected_oom_score_adj[ty] = proc[selected[ty]].oom_adj
    /\ \A i \in 1 .. Len(sent) : PassedChecks(sent[i])
    /\ \A t \in Tasks :
          ~PassedChecks(t) => t \notin (sigkill \cup memdie)

\* a finished pass that signalled a task after skipping a task without mm
\* and a task with oom_adj below min_adj
C15_Witness ==
    /\ PassDone /\ sent # << >>
    /\ PassedChecks(sent[1])
    /\ \E t, u \in Tasks : /\ ~proc[t].mm
                           /\ proc[u].mm /\ proc[u].sig
                           /\ proc[u].oom_adj < min_adj

\* C16: at most one kill per pass: a pass signals at most one task, whatever
\* number of process types have a selected task, and it signals exactly one
\* when some process type has a task that passed the checks.
C16_AtMostOneKill ==
    /\ Len(sent) <= 1
    /\ Cardinality(sigkill) <= 1
    /\ memdie = sigkill
    /\ PassDone =>
          /\ (Len(sent) = 1) = (\E ty \in ProcTypes : Candidates(ty) # {})
          /\ sigkill = { sent[i] : i \in 1 .. Len(sent) }

\* a finished pass with a candidate of every managed process type and one
\* signal
C16_Witness ==
    /\ PassDone /\ Len(sent) = 1
    /\ \A ty \in ProcTypes : Candidates(ty) # {} /\ selected[ty] # NULL
    /\ sigkill = { sent[1] }

\* C18: lock discipline: tasklist_lock is read-held exactly while a pass is
\* between read_lock (line 211) and read_unlock (line 289): it is taken only
\* by an entry step that goes on to walk the task list, never by one that
\* returns early, and every step that ends a pass leaves it free; no
\* task_lock taken at line 217 is still held when the next task is examined
\* or the pass ends; and the step that sends the signal starts with
\* tasklist_lock read-held.
C18_LockDiscipline ==
    /\ [](tasklist_lock = (IF pc = "scan" THEN 1 ELSE 0))
    /\ [](task_locks = {})
    /\ []((outcome \in {"report", "deathpending"}) =>
              (pc = "idle" /\ cur = 0 /\ tasklist_lock = 0))
    /\ [][ (tasklist_lock' > tasklist_lock) =>
              ( /\ pc = "idle" /\ pc' = "scan" /\ cur' = 1
                /\ nr_to_scan' > 0 /\ min_adj' <= OOM_ADJUST_MAX ) ]_vars
    /\ [][ (pc = "scan" /\ pc' = "idle") => tasklist_lock' = 0 ]_vars
    /\ [][ (sent' # sent /\ sent' # << >>) =>
              (tasklist_lock >= 1 /\ pc = "scan") ]_vars

\* a finished pass that skipped a task without mm and a task with oom_adj
\* below min_adj, sized and signalled another, and holds no lock
C18_Witness ==
    /\ PassDone /\ Len(sent) = 1
    /\ \E t, u \in Tasks :
          /\ scan_path(proc[t], min_adj) = "nocontext"
          /\ scan_path(proc[u], min_adj) = "lowadj"
    /\ scan_path(proc[sent[1]], min_adj) = "sized"
    /\ tasklist_lock = 0 /\ task_locks = {}

----------------------------------------------------------------------------
(* The classifier specification: one pass over a single task, for every comm
   of up to MaxCommLen characters and every pair of do-not-kill lists of up
   to MaxNames names *)

RECURSIVE SeqsUpTo(_, _)
\* the sequences over S of length at most n
SeqsUpTo(S, n) ==
    IF n = 0 THEN { << >> }
    ELSE LET shorter == SeqsUpTo(S, n - 1)
         IN  shorter \cup { Append(q, x) : q \in shorter, x \in S }

Alphabet == { "a", "b" }

ClassifyComms == SeqsUpTo(Alphabet, MaxCommLen) \ { << >> }

\* the names written to donotkill_proc_names and donotkill_sysproc_names
ClassifyNames == { << "a" >>, << "a", "b" >>, << "b", "a", "b" >> }

ClassifyLists ==
    { DoNotKill(en, names) : en \in {0, 1}, names \in SeqsUpTo(ClassifyNames, MaxNames) }

InitClassify ==
    /\ lowmem_adj = DefaultAdj
    /\ lowmem_adj_size = 4
    /\ lowmem_minfree = DefaultMinfree
    /\ lowmem_minfree_size = 4
    /\ donotkill_proc \in ClassifyLists
    /\ donotkill_sysproc \in ClassifyLists
    /\ proc \in { [t \in {1} |-> [mm |-> TRUE, sig |-> TRUE, oom_adj |-> 12,
                                  rss |-> 5, comm |-> c]] : c \in ClassifyComms }
    /\ InitKernel

NextClassify ==
    \/ (outcome = "none" /\ lowmem_shrink_enter(128, ScanPages))
    \/ lowmem_shrink_scan
    \/ lowmem_shrink_kill

SpecClassify == InitClassify /\ [][NextClassify]_vars

\* needle occurs in hay
Occurs(needle, hay) ==
    \E i \in 0 .. Len(hay) : \E j \in i .. Len(hay) : SubSeq(hay, i + 1, j) = needle

\* the scan has examined task 1
Classified == pc = "scan" /\ cur = 2

\* C8 as stated: the task is user-protected when the user list is enabled and
\* one of its names occurs in the comm, else system-protected when the system
\* list is enabled and one of its names occurs in the comm, else killable.
C8_NameContainsToken ==
    Classified =>
        LET hit(dnk) == /\ dnk.enabled # 0
                        /\ \E i \in 1 .. dnk.names_count : Occurs(dnk.names[i], proc[1].comm)
        IN  selected[IF hit(donotkill_proc) THEN DO_NOT_KILL_PROCESS
                     ELSE IF hit(donotkill_sysproc) THEN DO_NOT_KILL_SYSTEM_PROCESS
                     ELSE KILLABLE_PROCESS] = 1

\* C8 amended: the task is user-protected when the user list is enabled and
\* the comm occurs in one of its names, else system-protected when the
\* system list is enabled and the comm occurs in one of its names, else
\* killable; a task matching both lists is user-protected.
C8_TokenContainsName ==
    Classified =>
        LET hit(dnk) == /\ dnk.enabled # 0
                        /\ \E i \in 1 .. dnk.names_count : Occurs(proc[1].comm, dnk.names[i])
        IN  /\ selected[IF hit(donotkill_proc) THEN DO_NOT_KILL_PROCESS
                        ELSE IF hit(donotkill_sysproc) THEN DO_NOT_KILL_SYSTEM_PROCESS
                        ELSE KILLABLE_PROCESS] = 1
            /\ Cardinality({ ty \in ProcTypes : selected[ty] # NULL }) = 1

\* a task whose comm occurs in a name of each list, no name of which occurs
\* in the comm, classified as user-protected
C8_Witness ==
    /\ Classified
    /\ selected[DO_NOT_KILL_PROCESS] = 1
    /\ donotkill_proc.enabled # 0 /\ donotkill_sysproc.enabled # 0
    /\ \E i \in 1 .. donotkill_proc.names_count :
          /\ Occurs(proc[1].comm, donotkill_proc.names[i])
          /\ ~Occurs(donotkill_proc.names[i], proc[1].comm)
    /\ \E i \in 1 .. donotkill_sysproc.names_count :
          Occurs(proc[1].comm, donotkill_sysproc.names[i])

----------------------------------------------------------------------------
(* The threshold specification: report-only passes over every table and
   every snapshot below *)

\* the table of the scenario: adj 0,1,6,12 with minfree 1536,1024,2048,8192
ScenarioMinfree == [i \in 0 .. 5 |-> CASE i = 0 -> 1536 [] i = 1 -> 1024
                                       [] i = 2 -> 2048 [] i = 3 -> 8192
                                       [] OTHER -> 0]

ResolvePages ==
    { [free |-> f, file |-> c, shmem |-> s, active_anon |-> 30,
       active_file |-> 20, inactive_anon |-> 10, inactive_file |-> 5] :
      f \in {0, 1000, 1600, 3000, 20000}, c \in {500, 1600, 5000}, s \in {0, 600} }

InitResolve ==
    /\ lowmem_adj = DefaultAdj
    /\ lowmem_adj_size \in {0, 2, 4, 6}
    /\ lowmem_minfree \in {DefaultMinfree, ScenarioMinfree}
    /\ lowmem_minfree_size \in {0, 3, 4, 6}
    /\ donotkill_proc = DoNotKill(0, << >>)
    /\ donotkill_sysproc = DoNotKill(0, << >>)
    /\ proc = << >>
    /\ InitKernel

NextResolve ==
    \E snap \in ResolvePages : lowmem_shrink_enter(0, snap)

SpecResolve == InitResolve /\ [][NextResolve]_vars

\* the entries both sequences configure, within the capacity of the arrays
TableLen ==
    LET m == IF lowmem_adj_size < lowmem_minfree_size THEN lowmem_adj_size
             ELSE lowmem_minfree_size
    IN  IF m < LOWMEM_ARRAY_SIZE THEN m ELSE LOWMEM_ARRAY_SIZE

\* the entries whose threshold exceeds both counts, compared as integers
Matches(free, file) ==
    { i \in 0 .. (TableLen - 1) : free < lowmem_minfree[i] /\ file < lowmem_minfree[i] }

\* C5: after threshold resolution min_adj is the adj of the first entry
\* whose minfree exceeds both the free and the cache count, and
\* OOM_ADJUST_MAX + 1 (none) when no entry does.
C5_FirstMatch ==
    (outcome # "none") =>
        LET hits == Matches(other_free, other_file) IN
        IF hits = {} THEN min_adj = OOM_ADJUST_MAX + 1
        ELSE min_adj = lowmem_adj[CHOOSE i \in hits : \A j \in hits : i <= j]

\* x as the threshold comparison sees it: a negative count wraps to the top
\* of the unsigned range
AsUnsigned(x) == IF x < 0 THEN x + Pow2(WordBits) ELSE x

\* the entries below the shorter of the two lengths that match the counts of
\* the pass
HitsWithin(n) ==
    { i \in 0 .. (n - 1) : /\ AsUnsigned(other_free) < lowmem_minfree[i]
                           /\ AsUnsigned(other_file) < lowmem_minfree[i] }

\* C14: truncation: threshold resolution looks only at the indices below the
\* shorter of the two configured lengths (and below the capacity of the
\* arrays): min_adj is the adj of the first matching entry among those, and
\* OOM_ADJUST_MAX + 1 when none of those matches, whatever the entries past
\* that length hold.
C14_Truncation ==
    (outcome # "none") =>
        LET hits == HitsWithin(TableLen) IN
        IF hits = {} THEN min_adj = OOM_ADJUST_MAX + 1
        ELSE min_adj = lowmem_adj[CHOOSE i \in hits : \A j \in hits : i <= j]

\* lowmem_adj has four entries and lowmem_minfree three; the counts match
\* the fourth entry only, and the pass resolves no min_adj
C14_Witness ==
    /\ outcome # "none"
    /\ lowmem_adj_size = 4 /\ lowmem_minfree_size = 3
    /\ HitsWithin(3) = {}
    /\ 3 \in HitsWithin(4)
    /\ min_adj = OOM_ADJUST_MAX + 1

\* C20: a negative cache count (NR_SHMEM above NR_FILE_PAGES) is compared
\* with the thresholds as a value at the top of the unsigned range: no
\* entry of the table matches and the pass returns from its entry step with
\* min_adj at OOM_ADJUST_MAX + 1, selecting and signalling nothing, however
\* few free pages there are.
C20_NegativeCacheNoMatch ==
    (outcome # "none" /\ other_file < 0) =>
        /\ AsUnsigned(other_file) >= Pow2(WordBits - 1)
        /\ \A i \in 0 .. (TableLen - 1) :
              AsUnsigned(other_file) >= lowmem_minfree[i]
        /\ min_adj = OOM_ADJUST_MAX + 1
        /\ pc = "idle"
        /\ outcome = "report"
        /\ selected = AllNull
        /\ sent = << >>
        /\ ret = Estimate(entry.pages)

\* a pass with nr_to_scan > 0, free pages below the first threshold and a
\* negative cache count, while listed tasks of positive size exist
C20_Witness ==
    /\ outcome = "report" /\ nr_to_scan > 0
    /\ other_file < 0
    /\ other_free < lowmem_minfree[0]
    /\ min_adj = OOM_ADJUST_MAX + 1
    /\ \E t \in Tasks : tstate[t] = "listed" /\ proc[t].mm /\ proc[t].rss > 0

====
